---- MODULE Spec2Model ----
(***************************************************************************)
(* A model of eegviz (src/eegviz/eegviz.py): the EvData accessor, the      *)
(* annotation parser parse_annotation and the unit table                   *)
(* unit_fiff_to_human.                                                     *)
(*                                                                         *)
(* Conventions.                                                            *)
(*   - Python's None is the empty set and a present value x is {x}.        *)
(*   - Time is counted in ticks; sample i (0-based, as in numpy) is at     *)
(*     tick i * TicksPerSample, which is mne's times = arange(n) / sfreq.  *)
(*   - The signal is the identity signal: the value of sample i is i, so   *)
(*     a returned data row is the list of the sample indices returned.     *)
(*   - A text (a description, an event name) is a sequence of characters   *)
(*     of Chars; a path is a sequence of path atoms.                       *)
(*   - A call's outcome is a record [ok, val, err]: ok with a value, or an *)
(*     exception named by err.                                             *)
(***************************************************************************)
EXTENDS Integers, Sequences, FiniteSets, TLC

\* ------------------------------------------------------------------ bounds

\* Largest number of samples of a recording.
MaxSamples == 4
\* Ticks between two samples (2: a requested time can fall exactly between
\* two samples, where argmin's tie rule decides).
TicksPerSample == 2
\* How far a requested time may lie outside the recording, in ticks.
Margin == 2
\* Largest number of annotations of a recording.
MaxAnnot == 2
\* Longest event name a caller asks for, in characters.
MaxNameLen == 2
\* Longest path, in path atoms.
MaxPathLen == 3
\* Largest number of channels in the unit queries.
MaxChannels == 2

\* ----------------------------------------------------------------- helpers

None == {}
Some(x) == {x}
The(o) == CHOOSE x \in o : TRUE

Ok(v) == [ok |-> TRUE, val |-> v, err |-> "none"]
Raise(e) == [ok |-> FALSE, val |-> None, err |-> e]

\* All sequences over S of length at most n.
SeqsUpTo(S, n) == UNION {[1..k -> S] : k \in 0..n}

Max2(a, b) == IF a >= b THEN a ELSE b
Min2(a, b) == IF a <= b THEN a ELSE b
Abs(x) == IF x < 0 THEN -x ELSE x

\* Python's list slice s[i:] on a 1-based sequence, i the first kept position.
From(s, i) == SubSeq(s, i, Len(s))

\* Last position of x in s, 0 when absent (str.rfind, shifted to 1-based).
RFind(s, x) ==
    LET hits == {i \in 1..Len(s) : s[i] = x}
    IN IF hits = {} THEN 0 ELSE CHOOSE i \in hits : \A j \in hits : j <= i

\* ------------------------------------------------------ file name dispatch

PathAtoms == {"/", ".", "vhdr", "edf", "VHDR", "rec"}

\* os.path.splitext(fname)[1]: the text from the last dot of the base name, when
\* some character of the base name before that dot is not a dot; otherwise empty.
SplitExt(p) ==
    LET sepIndex == RFind(p, "/")
        dotIndex == RFind(p, ".")
    IN IF /\ dotIndex > sepIndex
          /\ \E k \in (sepIndex + 1)..(dotIndex - 1) : p[k] # "."
       THEN From(p, dotIndex)
       ELSE <<>>

ExtVhdr == <<".", "vhdr">>
ExtEdf == <<".", "edf">>

\* ReaderFor with a slip: the extension is compared without regard to case.
ReaderForAnyCase(ext) ==
    IF ext \in {<<".", "vhdr">>, <<".", "VHDR">>} THEN "read_raw_brainvision"
    ELSE IF ext = <<".", "edf">> THEN "read_raw_edf"
    ELSE "none"

\* Which reader __load_from_file hands the path to; "none" when it raises.
ReaderFor(ext) ==
    IF ext = ExtVhdr THEN "read_raw_brainvision"
    ELSE IF ext = ExtEdf THEN "read_raw_edf"
    ELSE "none"

\* EvData.__load_from_file: the reader calls made and the outcome. file is what
\* the reader decodes from the path: None when it cannot (its error propagates).
LoadFromFile(fname, file) ==
    LET ext == SplitExt(fname)
        reader == ReaderFor(ext)
    IN IF reader = "none"
       THEN [calls |-> <<>>,
             out |-> [ok |-> FALSE, val |-> None, err |-> "ValueError",
                      msg |-> <<"Unknown file type: ", ext>>]]
       ELSE [calls |-> <<reader>>,
             out |-> IF file = None
                     THEN [ok |-> FALSE, val |-> None, err |-> "ReaderError",
                           msg |-> <<>>]
                     ELSE [ok |-> TRUE, val |-> The(file), err |-> "none",
                           msg |-> <<>>]]

\* ------------------------------------------------------- annotation parser

AnnotColumns == <<"onset", "duration", "description", "orig_time">>

\* pd.DataFrame(columns=[...]): no rows, the four columns.
EmptyFrame == [columns |-> AnnotColumns, rows |-> <<>>]

\* pd.DataFrame(a, index=[0]): one row, the record's keys as columns.
OneRowFrame(a) == [columns |-> AnnotColumns, rows |-> <<a>>]

\* ConcatFrames with a slip: the new rows go before the old ones.
ConcatFramesPrepend(x, y) ==
    [columns |-> x.columns, rows |-> y.rows \o x.rows]

\* pd.concat([x, y], ignore_index=True): the rows of x, then those of y; the
\* columns of x, then those of y that x lacks.
ConcatFrames(x, y) ==
    [columns |-> x.columns \o
                 SelectSeq(y.columns,
                           LAMBDA c : \A i \in 1..Len(x.columns) : x.columns[i] # c),
     rows |-> x.rows \o y.rows]

\* The loop of parse_annotation from record k of annot on, df the table so far.
RECURSIVE ParseLoop(_, _, _)
ParseLoop(annot, k, df) ==
    IF k > Len(annot) THEN df
    ELSE ParseLoop(annot, k + 1, ConcatFrames(df, OneRowFrame(annot[k])))

parse_annotation(annot) == ParseLoop(annot, 1, EmptyFrame)

\* df[c]: the column as a list, KeyError when the table has no such column.
Column(df, c) ==
    IF \E i \in 1..Len(df.columns) : df.columns[i] = c
    THEN Ok([i \in 1..Len(df.rows) |-> df.rows[i][c]])
    ELSE Raise("KeyError")

\* ------------------------------------------------------------ event query

\* The characters of a description or an event name: a lower-case and an
\* upper-case letter (neither is a string prefix in Python), the double quote
\* and the backslash.
Quote == "\""
Backslash == "\\"
Chars == {"s", "S", Quote, Backslash}

\* 'description == "{}"'.format(event_name): the text of the right-hand side
\* of the comparison, which DataFrame.query parses as Python source.
FormatQuery(event_name) == <<Quote>> \o event_name \o <<Quote>>

\* Whether src holds three quotes from position i on.
TripleAt(src, i) ==
    /\ i + 2 <= Len(src)
    /\ src[i] = Quote /\ src[i + 1] = Quote /\ src[i + 2] = Quote

\* The body of a Python string literal from position i of src (just after the
\* opening quote or, with triple, the three opening quotes), acc the decoded
\* text so far: [ok, text, next], next the position after the closing quotes.
\* A backslash takes the next character with it: \" is a quote, \\ a
\* backslash, and before any other character here the backslash stays. A
\* literal that the source ends before closing is an error.
RECURSIVE ScanLiteral(_, _, _, _)
ScanLiteral(src, i, acc, triple) ==
    IF i > Len(src) THEN [ok |-> FALSE, text |-> <<>>, next |-> i]
    ELSE IF ~triple /\ src[i] = Quote
         THEN [ok |-> TRUE, text |-> acc, next |-> i + 1]
    ELSE IF triple /\ TripleAt(src, i)
         THEN [ok |-> TRUE, text |-> acc, next |-> i + 3]
    ELSE IF src[i] = Backslash
         THEN IF i + 1 > Len(src) THEN [ok |-> FALSE, text |-> <<>>, next |-> i]
              ELSE IF src[i + 1] \in {Quote, Backslash}
                   THEN ScanLiteral(src, i + 2, Append(acc, src[i + 1]), triple)
                   ELSE ScanLiteral(src, i + 2,
                                    acc \o <<Backslash, src[i + 1]>>, triple)
    ELSE ScanLiteral(src, i + 1, Append(acc, src[i]), triple)

\* The right-hand side from position i on as Python source: one string literal
\* or several adjacent ones (which Python concatenates), and nothing else.
\* Over Chars anything else is a syntax error: a name or a backslash next to
\* a literal, or a literal left open.
RECURSIVE ParseLiterals(_, _, _)
ParseLiterals(src, i, acc) ==
    IF i > Len(src) THEN Ok(acc)
    ELSE IF src[i] # Quote THEN Raise("SyntaxError")
    ELSE LET lit == IF TripleAt(src, i)
                    THEN ScanLiteral(src, i + 3, <<>>, TRUE)
                    ELSE ScanLiteral(src, i + 1, <<>>, FALSE)
         IN IF lit.ok THEN ParseLiterals(src, lit.next, acc \o lit.text)
            ELSE Raise("SyntaxError")

\* The positions of the rows of df whose description equals text.
RowsEqual(df, text) == {i \in 1..Len(df.rows) : df.rows[i].description = text}

\* The rows of df at the positions in keep, in table order.
RECURSIVE TakeRows(_, _, _)
TakeRows(rows, keep, i) ==
    IF i > Len(rows) THEN <<>>
    ELSE (IF i \in keep THEN <<rows[i]>> ELSE <<>>) \o TakeRows(rows, keep, i + 1)

\* events_df.query('description == "{}"'.format(event_name)): the table of the
\* rows the parsed comparison selects, or the parser's error.
Query(df, event_name) ==
    LET rhs == ParseLiterals(FormatQuery(event_name), 1, <<>>)
    IN IF rhs.ok
       THEN Ok([columns |-> df.columns,
                rows |-> TakeRows(df.rows, RowsEqual(df, rhs.val), 1)])
       ELSE rhs

\* list(events_df.query(...)[column])
EventColumn(df, event_name, column) ==
    LET q == Query(df, event_name)
    IN IF q.ok THEN Column(q.val, column) ELSE q

get_event_onset_time(df, event_name) == EventColumn(df, event_name, "onset")
get_event_duration(df, event_name) == EventColumn(df, event_name, "duration")
get_event_timestamp(df, event_name) == EventColumn(df, event_name, "orig_time")

\* ------------------------------------------------------------ time windows

\* raw.times of a recording of n samples: sample i at tick i * TicksPerSample.
TimesOf(n) == [i \in 0..(n - 1) |-> i * TicksPerSample]

\* max(times) and min(times)
MaxOf(times) == CHOOSE v \in {times[i] : i \in DOMAIN times} :
                    \A i \in DOMAIN times : times[i] <= v
MinOf(times) == CHOOSE v \in {times[i] : i \in DOMAIN times} :
                    \A i \in DOMAIN times : times[i] >= v

\* ArgMinAbs with a slip: on a tie the last index wins.
ArgMinAbsLast(times, t) ==
    CHOOSE i \in DOMAIN times :
        /\ \A j \in DOMAIN times : Abs(times[i] - t) <= Abs(times[j] - t)
        /\ \A j \in DOMAIN times :
               Abs(times[j] - t) = Abs(times[i] - t) => i >= j

\* np.argmin(np.abs(times - t)): the first index where the distance is least.
ArgMinAbs(times, t) ==
    CHOOSE i \in DOMAIN times :
        /\ \A j \in DOMAIN times : Abs(times[i] - t) <= Abs(times[j] - t)
        /\ \A j \in DOMAIN times :
               Abs(times[j] - t) = Abs(times[i] - t) => i <= j

\* The integers a, a+1, ..., b-1 in order (the indices of a slice a:b).
Range(a, b) == [k \in 1..(IF b > a THEN b - a ELSE 0) |-> a + k - 1]

\* The channels picks selects: all of them for None, else the one named.
Picks(raw, channel) ==
    IF channel = None THEN raw.ch_names
    ELSE SelectSeq(raw.ch_names, LAMBDA c : c = The(channel))

\* The wrapped recording's get_data(picks, start, stop, return_times): the
\* samples start, ..., stop-1 (stop=None: through the last one; a stop past
\* the end is cut to the end) of the picked channels, with their times when
\* asked. The set of the outcomes it may have: on a range without samples a
\* recording read lazily from its file raises ("No data in this range") and
\* one held in memory gives no samples, and which of the two the readers
\* produce is the wrapped library's matter, so both are allowed.
RawGetData(raw, channel, start, stop, return_times) ==
    LET n == raw.n_times
        end == IF stop = None THEN n ELSE Min2(The(stop), n)
        idx == Range(start, end)
        got == Ok([ch |-> Picks(raw, channel),
                   data |-> idx,
                   times |-> IF return_times
                             THEN Some([k \in 1..Len(idx) |-> TimesOf(n)[idx[k]]])
                             ELSE None])
    IN IF start >= end THEN {got, Raise("ValueError")} ELSE {got}

\* StopIndex with a slip: the end index is always the nearest index, never
\* open-ended.
StopIndexNearest(self, period) ==
    Some(ArgMinAbs(self.times, Min2(period[2], self.tmax)))

\* The stop index get_data passes on: the nearest index to the clamped end, or
\* None when the requested end lies past the recording's maximum time.
StopIndex(self, period) ==
    IF period[2] > self.tmax THEN None
    ELSE Some(ArgMinAbs(self.times, Min2(period[2], self.tmax)))

\* The start index get_data passes on: the nearest index to the clamped start.
StartIndex(self, period) == ArgMinAbs(self.times, Max2(period[1], self.tmin))

\* EvData.get_data(period, channel, return_times): the outcomes it may have.
\* period is None or Some(<<start, end>>).
get_data(self, period, channel, return_times) ==
    IF period = None
    THEN RawGetData(self.mneraw, channel, 0, None, return_times)
    ELSE RawGetData(self.mneraw, channel, StartIndex(self, The(period)),
                    StopIndex(self, The(period)), return_times)

\* The window get_data_by_event asks get_data for, for one event.
EventWindow(self, onset, duration, pre, post) ==
    <<Max2(onset - pre, self.tmin), Min2(onset + duration + post, self.tmax)>>

\* The loop of get_data_by_event from event k on, datas the list so far: the
\* outcomes it may have. An exception of get_data ends the loop and the call.
RECURSIVE ByEventLoop(_, _, _, _, _, _, _, _)
ByEventLoop(self, ev_onsets, ev_durations, pre, post, channel, return_times, datas) ==
    LET k == Len(datas) + 1
    IN IF k > Min2(Len(ev_onsets), Len(ev_durations)) THEN {Ok(datas)}
       ELSE UNION {
              IF d.ok
              THEN ByEventLoop(self, ev_onsets, ev_durations, pre, post, channel,
                               return_times, Append(datas, d.val))
              ELSE {d}
              : d \in get_data(self,
                               Some(EventWindow(self, ev_onsets[k], ev_durations[k],
                                                pre, post)),
                               channel, return_times)}

\* EvData.get_data_by_event(event_name, pre, post, channel, return_times): the
\* outcomes it may have.
get_data_by_event(self, event_name, pre, post, channel, return_times) ==
    LET ev_onsets == get_event_onset_time(self.events_df, event_name)
        ev_durations == get_event_duration(self.events_df, event_name)
    IN IF ~ev_onsets.ok THEN {ev_onsets}
       ELSE IF ~ev_durations.ok THEN {ev_durations}
       ELSE ByEventLoop(self, ev_onsets.val, ev_durations.val, pre, post, channel,
                        return_times, <<>>)

\* --------------------------------------------------------------- unit table

\* The table of unit_fiff_to_human: FIFF unit code, name.
UnitTable ==
    {<<-1, "<No unit>">>, <<0, "unitless">>, <<1, "meter">>, <<2, "kilogram">>,
     <<3, "second">>, <<4, "ampere">>, <<5, "Kelvin">>, <<6, "mole">>,
     <<7, "radian">>, <<8, "steradian">>, <<9, "candela">>, <<10, "mol/m^3">>,
     <<101, "herz">>, <<102, "Newton">>, <<103, "pascal">>, <<104, "joule">>,
     <<105, "watt">>, <<106, "coulomb">>, <<107, "volt">>, <<108, "farad">>,
     <<109, "ohm">>, <<110, "one per ohm">>, <<111, "weber">>, <<112, "tesla">>,
     <<113, "Henry">>, <<114, "celcius">>, <<115, "lumen">>, <<116, "lux">>,
     <<117, "V/m^2">>, <<201, "T/m">>, <<202, "Am">>, <<203, "Am/m^2">>,
     <<204, "Am/m^3">>}

UnitKeys == {e[1] : e \in UnitTable}

\* unit_fiff_to_human with a slip: table.get(int(unit), "unknown").
UnitFiffToHumanDefault(unit) ==
    IF unit \in UnitKeys
    THEN Ok((CHOOSE e \in UnitTable : e[1] = unit)[2])
    ELSE Ok("unknown")

\* table[int(unit)]: the name, KeyError for a code the table lacks.
unit_fiff_to_human(unit) ==
    IF unit \in UnitKeys
    THEN Ok((CHOOSE e \in UnitTable : e[1] = unit)[2])
    ELSE Raise("KeyError")

\* The dict comprehension of channel_unit from channel k on, chunit the dict
\* so far as a set of <<name, unit name>> entries; the first failing lookup
\* ends it.
RECURSIVE ChannelUnitLoop(_, _, _)
ChannelUnitLoop(chinfo, k, chunit) ==
    IF k > Len(chinfo) THEN Ok(chunit)
    ELSE LET u == unit_fiff_to_human(chinfo[k].unit)
         IN IF u.ok
            THEN ChannelUnitLoop(chinfo, k + 1,
                                 {e \in chunit : e[1] # chinfo[k].ch_name}
                                     \cup {<<chinfo[k].ch_name, u.val>>})
            ELSE u

\* EvData.channel_unit
channel_unit(self) == ChannelUnitLoop(self.mneraw.chs, 1, {})

\* -------------------------------------------------------------------- state

VARIABLES
    fname,        \* the path given to EvData(fname): None or Some(path)
    file,         \* what a reader decodes from that path: None (it fails) or Some(raw)
    pc,           \* "new" before EvData(...), then "loaded", "inert" or "failed";
                  \* "called" while the outcome of a query is with the caller
    self,         \* the accessor: None, or Some(record of its private fields)
    readerCalls,  \* the readers called so far, in order
    call,         \* the last call made: its name and arguments
    ret           \* the outcome of the last call

vars == <<fname, file, pc, self, readerCalls, call, ret>>

\* ------------------------------------------------------------ the recordings

\* The name of channel k.
ChName(k) == <<"ch", k>>

\* The per-channel records of info['chs'] for the unit codes in units.
ChsOf(units) ==
    [k \in 1..Len(units) |->
        [ch_name |-> ChName(k), unit |-> units[k], unit_mul |-> 0]]

\* A decoded recording (the mne Raw the readers return).
Raw(n, annot, units) ==
    [n_times |-> n, sfreq |-> "sfreq",
     ch_names |-> [k \in 1..Len(units) |-> ChName(k)],
     chs |-> ChsOf(units), annotations |-> annot]

\* The annotation records with an onset in onsets and the origin time orig.
Descriptions == {<<"s">>, <<"S">>, <<Quote>>}
AnnotRecords(onsets, orig) ==
    [onset : onsets, duration : {0, TicksPerSample},
     description : Descriptions, orig_time : {orig}]

OrigTimes == {None, Some("2019-01-01")}

VoltUnits == <<107, 107>>
PlainPath == <<"rec", ".", "vhdr">>

\* The unit codes a lookup is tried with: those of the table and some it lacks.
UnitCodes == UnitKeys \cup {-2, 11, 100, 118, 200, 205, 9999}

\* The unit codes the channels of the recordings carry.
ChannelCodes == {-1, 107, 114, 11, 9999}

\* ----------------------------------------------------------------- actions

NoCall == [op |-> "none"]

\* The fields EvData.__init__ sets before it looks at fname.
Inert == [fname |-> None, mneraw |-> None, ch |-> None, times |-> None,
          tmax |-> None, tmin |-> None, sf |-> None, events_df |-> None]

\* The fields EvData.__init__ derives from the loaded recording raw.
Loaded(path, raw) ==
    [fname |-> Some(path), mneraw |-> raw, ch |-> raw.ch_names,
     times |-> TimesOf(raw.n_times),
     tmax |-> MaxOf(TimesOf(raw.n_times)),
     tmin |-> MinOf(TimesOf(raw.n_times)),
     sf |-> raw.sfreq,
     events_df |-> parse_annotation(raw.annotations)]

\* EvData(fname)
Construct ==
    /\ pc = "new"
    /\ call' = [op |-> "EvData", fname |-> fname]
    /\ IF fname = None
       THEN /\ self' = Some(Inert)
            /\ pc' = "inert"
            /\ ret' = Ok(None)
            /\ readerCalls' = readerCalls
       ELSE LET r == LoadFromFile(The(fname), file)
            IN /\ readerCalls' = readerCalls \o r.calls
               /\ ret' = r.out
               /\ IF r.out.ok
                  THEN /\ self' = Some(Loaded(The(fname), r.out.val))
                       /\ pc' = "loaded"
                  ELSE /\ self' = None
                       /\ pc' = "failed"
    /\ UNCHANGED <<fname, file>>

\* The arguments the queries are called with.
Periods(s) ==
    {None} \cup {Some(<<a, b>>) : a, b \in (s.tmin - Margin)..(s.tmax + Margin)}
ChannelArgs == {None, Some(ChName(1))}
EventNames == SeqsUpTo(Chars, MaxNameLen)
PrePost == 0..Margin

\* obj.get_data(period, channel, return_times) on a loaded accessor
GetData ==
    /\ pc = "loaded"
    /\ \E period \in Periods(The(self)), channel \in ChannelArgs,
          return_times \in BOOLEAN :
          /\ call' = [op |-> "get_data", period |-> period, channel |-> channel,
                      return_times |-> return_times]
          /\ ret' \in get_data(The(self), period, channel, return_times)
    /\ pc' = "called"
    /\ UNCHANGED <<fname, file, self, readerCalls>>

\* obj.get_data_by_event(event_name, pre, post, channel, return_times)
GetDataByEvent ==
    /\ pc = "loaded"
    /\ \E event_name \in EventNames, pre \in PrePost, post \in PrePost,
          channel \in ChannelArgs, return_times \in BOOLEAN :
          /\ call' = [op |-> "get_data_by_event", event_name |-> event_name,
                      pre |-> pre, post |-> post, channel |-> channel,
                      return_times |-> return_times]
          /\ ret' \in get_data_by_event(The(self), event_name, pre, post, channel,
                                        return_times)
    /\ pc' = "called"
    /\ UNCHANGED <<fname, file, self, readerCalls>>

\* obj.get_event_onset_time(event_name)
GetEventOnsetTime ==
    /\ pc = "loaded"
    /\ \E event_name \in EventNames :
          /\ call' = [op |-> "get_event_onset_time", event_name |-> event_name]
          /\ ret' = get_event_onset_time(The(self).events_df, event_name)
    /\ pc' = "called"
    /\ UNCHANGED <<fname, file, self, readerCalls>>

\* obj.get_event_duration(event_name)
GetEventDuration ==
    /\ pc = "loaded"
    /\ \E event_name \in EventNames :
          /\ call' = [op |-> "get_event_duration", event_name |-> event_name]
          /\ ret' = get_event_duration(The(self).events_df, event_name)
    /\ pc' = "called"
    /\ UNCHANGED <<fname, file, self, readerCalls>>

\* obj.get_event_timestamp(event_name)
GetEventTimestamp ==
    /\ pc = "loaded"
    /\ \E event_name \in EventNames :
          /\ call' = [op |-> "get_event_timestamp", event_name |-> event_name]
          /\ ret' = get_event_timestamp(The(self).events_df, event_name)
    /\ pc' = "called"
    /\ UNCHANGED <<fname, file, self, readerCalls>>

\* obj.channel_unit
ChannelUnit ==
    /\ pc = "loaded"
    /\ call' = [op |-> "channel_unit"]
    /\ ret' = channel_unit(The(self))
    /\ pc' = "called"
    /\ UNCHANGED <<fname, file, self, readerCalls>>

\* unit_fiff_to_human(unit), called on its own
UnitFiffToHuman ==
    /\ pc = "loaded"
    /\ \E unit \in UnitCodes :
          /\ call' = [op |-> "unit_fiff_to_human", unit |-> unit]
          /\ ret' = unit_fiff_to_human(unit)
    /\ pc' = "called"
    /\ UNCHANGED <<fname, file, self, readerCalls>>

\* The caller takes the outcome of a query; the accessor, which no query
\* changes, is ready for the next one.
Return ==
    /\ pc = "called"
    /\ pc' = "loaded"
    /\ call' = NoCall
    /\ ret' = Ok(None)
    /\ UNCHANGED <<fname, file, self, readerCalls>>

\* ---------------------------------------------------------- specifications

InitCommon ==
    /\ pc = "new"
    /\ self = None
    /\ readerCalls = <<>>
    /\ call = NoCall
    /\ ret = Ok(None)

\* Recordings of every length, queried by time window.
InitData ==
    /\ InitCommon
    /\ fname = Some(PlainPath)
    /\ file \in {Some(Raw(n, <<>>, VoltUnits)) : n \in 1..MaxSamples}

NextData == Construct \/ GetData \/ Return

SpecData == InitData /\ [][NextData]_vars

\* Recordings with every list of annotations at the first and the last
\* sample, queried by event name.
InitEvents ==
    /\ InitCommon
    /\ fname = Some(PlainPath)
    /\ file \in {Some(Raw(MaxSamples, annot, VoltUnits)) :
                   annot \in UNION {SeqsUpTo(AnnotRecords(
                                       {0, (MaxSamples - 1) * TicksPerSample}, orig),
                                       MaxAnnot) : orig \in OrigTimes}}

NextEvents ==
    \/ Construct
    \/ GetEventOnsetTime
    \/ GetEventDuration
    \/ GetEventTimestamp
    \/ GetDataByEvent
    \/ Return

SpecEvents == InitEvents /\ [][NextEvents]_vars

\* Recordings with every list of annotations, parsed at construction.
InitParse ==
    /\ InitCommon
    /\ fname = Some(PlainPath)
    /\ file \in {Some(Raw(MaxSamples, annot, VoltUnits)) :
                   annot \in UNION {SeqsUpTo(AnnotRecords(
                                       {i * TicksPerSample : i \in 0..(MaxSamples - 1)},
                                       orig),
                                       MaxAnnot) : orig \in OrigTimes}}

NextParse == Construct

SpecParse == InitParse /\ [][NextParse]_vars

\* Every path, over a file the reader can or cannot decode.
InitLoad ==
    /\ InitCommon
    /\ fname \in {None} \cup {Some(p) : p \in SeqsUpTo(PathAtoms, MaxPathLen)}
    /\ file \in {None, Some(Raw(1, <<>>, VoltUnits))}

NextLoad == Construct

SpecLoad == InitLoad /\ [][NextLoad]_vars

\* Recordings whose channels carry every unit code.
InitUnit ==
    /\ InitCommon
    /\ fname = Some(PlainPath)
    /\ file \in {Some(Raw(1, <<>>, units)) :
                   units \in UNION {[1..k -> ChannelCodes] : k \in 1..MaxChannels}}

NextUnit == Construct \/ ChannelUnit \/ UnitFiffToHuman \/ Return

SpecUnit == InitUnit /\ [][NextUnit]_vars

\* ------------------------------------------------- properties: time windows

\* The last call was get_data with a period, and its outcome is with the caller.
GotWindow == pc = "called" /\ call.op = "get_data" /\ call.period # None

\* What get_data gives without a period, for the last call's other arguments.
WholeRecording ==
    get_data(The(self), None, call.channel, call.return_times)

\* Index i of times is nearest to t, and the lowest such index.
IsNearest(times, t, i) ==
    /\ i \in DOMAIN times
    /\ \A j \in DOMAIN times : Abs(times[i] - t) <= Abs(times[j] - t)
    /\ \A j \in DOMAIN times : j < i => Abs(times[j] - t) > Abs(times[i] - t)

\* seq holds consecutive integers.
Contiguous(seq) == \A k \in 1..(Len(seq) - 1) : seq[k + 1] = seq[k] + 1

\* C1: get_data(period=None) returns the same sample range as
\* get_data(period=[min_time, max_time]), min_time and max_time the minimum
\* and maximum of the recording's time axis, for the same channel selection.
C1_NoneEqualsFullPeriod ==
    (GotWindow /\ call.period = Some(<<The(self).tmin, The(self).tmax>>))
        => ret \in WholeRecording

\* C2: for every t within the recording's time bounds,
\* get_data(period=[t, max_time]) includes the final sample; and whenever the
\* requested end reaches or exceeds the maximum time the end index is
\* open-ended instead of the nearest-match index.
C2_BoundarySnap ==
    GotWindow =>
        LET s == The(self)
            p == The(call.period)
        IN /\ (p[2] = s.tmax /\ s.tmin <= p[1] /\ p[1] <= s.tmax)
                  => /\ ret.ok
                     /\ \E k \in 1..Len(ret.val.data) :
                            ret.val.data[k] = s.mneraw.n_times - 1
           /\ p[2] >= s.tmax => StopIndex(s, p) = None

\* C3: a period that starts below min_time and ends above max_time returns
\* the same sample range as get_data(period=None): every sample from the
\* first to the last.
C3_ClampBothEnds ==
    GotWindow =>
        LET s == The(self)
            p == The(call.period)
        IN (p[1] < s.tmin /\ p[2] > s.tmax)
               => /\ ret \in WholeRecording
                  /\ ret.ok
                  /\ ret.val.data = Range(0, s.mneraw.n_times)

\* C3's case: a recording of several samples asked for a period past both of
\* its ends, answered with all of its samples.
C3_Witness ==
    /\ GotWindow
    /\ The(self).mneraw.n_times >= 2
    /\ The(call.period)[1] < The(self).tmin
    /\ The(call.period)[2] > The(self).tmax
    /\ ret.ok
    /\ Len(ret.val.data) = The(self).mneraw.n_times

\* The case of C9: start <= end, and the end below the maximum time.
C9_Case ==
    /\ GotWindow
    /\ The(call.period)[1] <= The(call.period)[2]
    /\ The(call.period)[2] < The(self).tmax

\* What C9 says of the indices: start is clamped up to the minimum time and
\* end down to the maximum time, start_index and end_index are the lowest
\* indices nearest to the clamped start and end, and start_index <= end_index.
C9_Indices ==
    LET s == The(self)
        p == The(call.period)
        si == StartIndex(s, p)
        stop == StopIndex(s, p)
    IN /\ IsNearest(s.times, Max2(p[1], s.tmin), si)
       /\ stop # None
       /\ IsNearest(s.times, Min2(p[2], s.tmax), The(stop))
       /\ si <= The(stop)

\* C9, as claimed: in its case the indices are as C9_Indices says, and the
\* returned samples are a contiguous range whose first sample is start_index
\* and which holds no sample with an index above end_index.
C9_Original ==
    C9_Case =>
        /\ C9_Indices
        /\ ret.ok
        /\ Len(ret.val.data) >= 1
        /\ ret.val.data[1] = StartIndex(The(self), The(call.period))
        /\ Contiguous(ret.val.data)
        /\ \A k \in 1..Len(ret.val.data) :
               ret.val.data[k] <= The(StopIndex(The(self), The(call.period)))

\* C9, amended: in its case the indices are as C9_Indices says; when
\* start_index < end_index the returned samples are a contiguous range whose
\* first sample is start_index and which holds no sample with an index above
\* end_index; when start_index = end_index no sample is returned: the call
\* gives an empty range or fails with a value error.
C9_Amended ==
    C9_Case =>
        LET si == StartIndex(The(self), The(call.period))
            ei == The(StopIndex(The(self), The(call.period)))
        IN /\ C9_Indices
           /\ si < ei =>
                  /\ ret.ok
                  /\ Len(ret.val.data) >= 1
                  /\ ret.val.data[1] = si
                  /\ Contiguous(ret.val.data)
                  /\ \A k \in 1..Len(ret.val.data) : ret.val.data[k] <= ei
           /\ si = ei =>
                  \/ ret.ok /\ ret.val.data = <<>>
                  \/ ~ret.ok /\ ret.err = "ValueError"

\* C9's case: a start that lies exactly between two samples (a tie of the
\* nearest-index search) and an end further on, answered with samples.
C9_Witness ==
    /\ C9_Case
    /\ \E i \in DOMAIN The(self).times :
           /\ i + 1 \in DOMAIN The(self).times
           /\ Abs(The(self).times[i] - The(call.period)[1])
                  = Abs(The(self).times[i + 1] - The(call.period)[1])
    /\ ret.ok
    /\ Len(ret.val.data) >= 1

\* ------------------------------------------------------ properties: events

\* The rows of df whose description is exactly text, in table order.
MatchingRows(df, text) == SelectSeq(df.rows, LAMBDA r : r.description = text)

\* The values of field c of rows, in order.
FieldOf(rows, c) == [k \in 1..Len(rows) |-> rows[k][c]]

\* The last call was get_data_by_event, and its outcome is with the caller.
GotByEvent == pc = "called" /\ call.op = "get_data_by_event"

\* C4: get_data_by_event returns exactly one result per annotation row whose
\* description equals event_name, in table order (result k is the window of
\* the k-th such row; rows with other descriptions contribute nothing), and
\* an empty list, not an error, when no row matches.
C4_OnePerMatchingRow ==
    GotByEvent =>
        LET rows == MatchingRows(The(self).events_df, call.event_name)
        IN /\ ret.ok
           /\ Len(ret.val) = Len(rows)
           /\ \A k \in 1..Len(rows) :
                  Ok(ret.val[k]) \in
                      get_data(The(self),
                               Some(EventWindow(The(self), rows[k].onset,
                                                rows[k].duration, call.pre,
                                                call.post)),
                               call.channel, call.return_times)
           /\ rows = <<>> => ret.val = <<>>

\* C5: get_event_onset_time, get_event_duration and get_event_timestamp
\* return, for any event name, the onset / duration / orig_time values of
\* exactly the rows whose description equals that name, in table order; a
\* name that matches no row gives an empty list, not an error.
C5_ExactMatchColumns ==
    LET rows == MatchingRows(The(self).events_df, call.event_name)
    IN /\ (pc = "called" /\ call.op = "get_event_onset_time")
              => ret = Ok(FieldOf(rows, "onset"))
       /\ (pc = "called" /\ call.op = "get_event_duration")
              => ret = Ok(FieldOf(rows, "duration"))
       /\ (pc = "called" /\ call.op = "get_event_timestamp")
              => ret = Ok(FieldOf(rows, "orig_time"))

\* get_data called once per event with the window as given, not clamped by
\* the caller: the outcomes from event k on, datas the list so far.
RECURSIVE DirectLoop(_, _, _, _, _, _, _, _)
DirectLoop(s, onsets, durations, pre, post, channel, return_times, datas) ==
    LET k == Len(datas) + 1
    IN IF k > Len(onsets) THEN {Ok(datas)}
       ELSE UNION {
              IF d.ok
              THEN DirectLoop(s, onsets, durations, pre, post, channel,
                              return_times, Append(datas, d.val))
              ELSE {d}
              : d \in get_data(s, Some(<<onsets[k] - pre,
                                        onsets[k] + durations[k] + post>>),
                               channel, return_times)}

\* C10: the clamping get_data_by_event applies before delegating is
\* transparent: for every row it selects and every pre, post >= 0, the result
\* for that row is what get_data(period=[onset - pre, onset + duration +
\* post]) gives when called with the unclamped window, also when the window
\* runs past the end of the recording.
C10_ClampTransparent ==
    GotByEvent =>
        LET s == The(self)
            onsets == get_event_onset_time(s.events_df, call.event_name)
            durations == get_event_duration(s.events_df, call.event_name)
        IN (onsets.ok /\ durations.ok)
               => ret \in DirectLoop(s, onsets.val, durations.val, call.pre,
                                     call.post, call.channel, call.return_times,
                                     <<>>)

\* ------------------------------------------- properties: annotation parser

\* C6: parse_annotation gives a table with one row per input record, in input
\* order, row i's four fields those of record i, nothing dropped, sorted or
\* merged; for the empty input the table has no rows and still its four
\* columns, so that reading the description column gives an empty list.
C6_ParseRoundTrip ==
    pc = "loaded" =>
        LET annot == The(file).annotations
            df == The(self).events_df
        IN /\ df.columns = <<"onset", "duration", "description", "orig_time">>
           /\ Len(df.rows) = Len(annot)
           /\ \A i \in 1..Len(annot) :
                  /\ df.rows[i].onset = annot[i].onset
                  /\ df.rows[i].duration = annot[i].duration
                  /\ df.rows[i].description = annot[i].description
                  /\ df.rows[i].orig_time = annot[i].orig_time
           /\ Column(df, "description")
                  = Ok([i \in 1..Len(annot) |-> annot[i].description])
           /\ annot = <<>> => Column(df, "description") = Ok(<<>>)

\* C6's case: two records of one description, the later one first, parsed
\* into two rows.
C6_Witness ==
    /\ pc = "loaded"
    /\ Len(The(file).annotations) = 2
    /\ The(file).annotations[1].description = The(file).annotations[2].description
    /\ The(file).annotations[1].onset > The(file).annotations[2].onset
    /\ Len(The(self).events_df.rows) = 2

\* ------------------------------------------------ properties: construction

\* C7: a path whose extension is neither '.vhdr' nor '.edf' fails with a
\* value error that names the extension, before any reader is called, and no
\* accessor results; a '.vhdr' path goes to the BrainVision reader only and a
\* '.edf' path to the EDF reader only.
C7_ExtensionDispatch ==
    (pc # "new" /\ fname # None) =>
        LET ext == SplitExt(The(fname))
        IN /\ ext \notin {<<".", "vhdr">>, <<".", "edf">>}
                  => /\ pc = "failed"
                     /\ ~ret.ok
                     /\ ret.err = "ValueError"
                     /\ ret.msg = <<"Unknown file type: ", ext>>
                     /\ readerCalls = <<>>
                     /\ self = None
           /\ ext = <<".", "vhdr">> => readerCalls = <<"read_raw_brainvision">>
           /\ ext = <<".", "edf">> => readerCalls = <<"read_raw_edf">>

\* C7's case: a path ending in '.VHDR' refused, no reader called.
C7_Witness ==
    /\ pc = "failed"
    /\ fname # None
    /\ SplitExt(The(fname)) = <<".", "VHDR">>
    /\ ret.err = "ValueError"
    /\ readerCalls = <<>>

\* ------------------------------------------------------- properties: units

\* C8: unit_fiff_to_human maps every registered code to its one name (107 to
\* "volt", -1 to "<No unit>", 114 to "celcius") and fails with a key error,
\* giving no fallback name, for a code the table lacks (such as 9999);
\* channel_unit fails as a whole when some channel carries such a code.
C8_UnitLookup ==
    /\ (pc = "called" /\ call.op = "unit_fiff_to_human") =>
           /\ call.unit = 107 => ret = Ok("volt")
           /\ call.unit = -1 => ret = Ok("<No unit>")
           /\ call.unit = 114 => ret = Ok("celcius")
           /\ call.unit = 9999 => ret = Raise("KeyError")
           /\ (\E e \in UnitTable : e[1] = call.unit)
                  => ret.ok /\ <<call.unit, ret.val>> \in UnitTable
           /\ (\A e \in UnitTable : e[1] # call.unit) => ret = Raise("KeyError")
    /\ (pc = "called" /\ call.op = "channel_unit") =>
           LET chs == The(self).mneraw.chs
           IN IF \E k \in 1..Len(chs) : \A e \in UnitTable : e[1] # chs[k].unit
              THEN ret = Raise("KeyError")
              ELSE /\ ret.ok
                   /\ \A k \in 1..Len(chs) :
                          \E e \in UnitTable :
                              e[1] = chs[k].unit /\ <<chs[k].ch_name, e[2]>> \in ret.val

\* C8's case: channel_unit asked of a recording whose first channel is in
\* volt and whose second carries the code 9999, failing as a whole.
C8_Witness ==
    /\ pc = "called"
    /\ call.op = "channel_unit"
    /\ Len(The(self).mneraw.chs) >= 2
    /\ The(self).mneraw.chs[1].unit = 107
    /\ The(self).mneraw.chs[2].unit = 9999
    /\ ret = Raise("KeyError")

====
